---- MODULE Spec2Model ----
(***************************************************************************)
(* Model of plugins/cmd2_ext_test/tasks.py: the shared removal helper      *)
(* rmrf, the clean tasks built on it, and the task dependency chains       *)
(* (clean.all, sdist, wheel, pypi, pypi-test) as the invoke executor runs  *)
(* them.                                                                   *)
(*                                                                         *)
(* A file name is the sequence of its segments between dots ('a.egg-info'  *)
(* is <<"a", "egg-info">>, '.eggs' is <<"", "eggs">>, '.' is <<"", "">>),  *)
(* so that str.endswith('.egg') is a test on the last segment.  A path is  *)
(* a sequence of names.  Absolute paths start with the name of a top       *)
(* directory; the paths the code passes to os / shutil are relative and    *)
(* are resolved against the working directory of the process.              *)
(***************************************************************************)
EXTENDS Integers, Sequences, FiniteSets, TLC

VARIABLES
    fs,        \* filesystem: absolute path -> "absent" | "file" | "dir"
    fs0,       \* the filesystem as it was when the run started (history)
    locked,    \* entries whose unlink / rmdir fails (no permission)
    cwd,       \* working directory of the python process
    arg,       \* rmrf: the `items` argument as passed by the caller
    verbose,   \* rmrf: the `verbose` argument
    idx,       \* rmrf: position of the for loop (index of the next item)
    out,       \* lines printed to stdout
    events,    \* rmrf: history of print / rmtree / remove calls, in order
    err,       \* exception that left the running code, or "none"
    pc,        \* position of the program
    invoked,   \* tasks named on the invoke command line, in order
    calls,     \* Executor.execute: the expanded (deduped) list of calls
    ci,        \* Executor.execute: index of the next call to run
    trace,     \* history: what every executed task body did, and where
    exitCode   \* exit status reported to the invoker

vars == <<fs, fs0, locked, cwd, arg, verbose, idx, out, events, err, pc,
          invoked, calls, ci, trace, exitCode>>

rmrfVars == <<arg, verbose, idx, events>>
runnerVars == <<invoked, calls, ci, trace, exitCode>>

----------------------------------------------------------------------------
(* Bounds *)

\* longest list handed to one rmrf call in the rmrf specification
MaxItems == 2

\* most tasks named on one invoke command line
MaxNamed == 2

----------------------------------------------------------------------------
(* Paths and the filesystem *)

\* os.curdir
Dot == <<"", "">>

\* directory of tasks.py
TASK_ROOT == <<(<<"plugin">>)>>

\* some other directory the process may have been started in
WorkDir == <<(<<"work">>)>>

Kinds == {"absent", "file", "dir"}

IsPrefix(p, q) == Len(p) <= Len(q) /\ SubSeq(q, 1, Len(p)) = p

Parent(p) == SubSeq(p, 1, Len(p) - 1)

\* kind of the entry at absolute path p
Kind(f, p) == IF p \in DOMAIN f THEN f[p] ELSE "absent"

Children(f, p) == {q \in DOMAIN f : Len(q) = Len(p) + 1 /\ IsPrefix(p, q) /\ f[q] # "absent"}

\* os.path.join / path resolution of a relative path against the process
\* working directory; "." components name the directory itself
Resolve(c, rel) == c \o SelectSeq(rel, LAMBDA n : n # Dot)

\* every proper prefix of an existing entry is a directory
WellFormed(f) ==
    \A p \in DOMAIN f :
        f[p] # "absent" /\ Parent(p) \in DOMAIN f => f[Parent(p)] = "dir"

\* the filesystems over a set of paths U in which the top directories exist
Filesystems(U) ==
    {f \in [U -> Kinds] :
        /\ WellFormed(f)
        /\ \A p \in U : Len(p) = 1 => f[p] = "dir"}

\* whether unlink (file) or rmtree (directory) gets rid of the entry at p:
\* the entry itself can be deleted, and a directory is empty by then
RECURSIVE Removable(_, _, _)
Removable(f, L, p) ==
    /\ p \notin L
    /\ \A q \in Children(f, p) : Removable(f, L, q)

\* shutil.rmtree(path, ignore_errors=True): on a directory, deletes what
\* can be deleted below it and then the directory if it became empty; on
\* anything else the error is ignored and nothing changes
RmTree(f, L, p) ==
    IF Kind(f, p) # "dir" THEN f
    ELSE [q \in DOMAIN f |->
            IF IsPrefix(p, q) /\ f[q] # "absent" /\ Removable(f, L, q)
            THEN "absent" ELSE f[q]]

\* os.remove(path): the exception it raises ("none": the file was removed)
RemoveError(f, L, p) ==
    CASE Kind(f, p) = "file" -> IF p \in L THEN "PermissionError" ELSE "none"
      [] Kind(f, p) = "dir"  -> "IsADirectoryError"
      [] OTHER ->
            IF \E k \in 1..(Len(p) - 1) : Kind(f, SubSeq(p, 1, k)) = "file"
            THEN "NotADirectoryError"
            ELSE "FileNotFoundError"

OsRemove(f, L, p) ==
    IF RemoveError(f, L, p) = "none" THEN [q \in DOMAIN f |-> IF q = p THEN "absent" ELSE f[q]]
    ELSE f

----------------------------------------------------------------------------
(* rmrf *)

\* the exceptions of os.remove that rmrf's except clause swallows
Suppressed == {"FileNotFoundError"}

\* if isinstance(items, str): items = [items]
Items(a) == IF a.str THEN <<a.val>> ELSE a.val

\* "Removing {}".format(item)
LogLine(item) == <<"Removing", item>>

\* one iteration of the for loop: the filesystem afterwards and the
\* exception that leaves the loop body ("none" when it completes)
RmrfItem(f, L, c, item) ==
    LET p  == Resolve(c, item)
        f1 == RmTree(f, L, p)
        e  == RemoveError(f1, L, p)
    IN  [fs  |-> OsRemove(f1, L, p),
         err |-> IF e \in Suppressed THEN "none" ELSE e]

\* the whole call on a list of items: stops at the first exception;
\* started counts the items whose iteration began (and was announced)
RECURSIVE RmrfAll(_, _, _, _)
RmrfAll(f, L, c, its) ==
    IF its = <<>> THEN [fs |-> f, err |-> "none", started |-> 0]
    ELSE LET r == RmrfItem(f, L, c, Head(its))
         IN  IF r.err # "none" THEN [fs |-> r.fs, err |-> r.err, started |-> 1]
             ELSE LET rest == RmrfAll(r.fs, L, c, Tail(its))
                  IN  [fs |-> rest.fs, err |-> rest.err, started |-> rest.started + 1]

\* what one rmrf call prints
RmrfOutput(its, v, started) ==
    IF v THEN [i \in 1..started |-> LogLine(its[i])] ELSE <<>>

\* paths of the rmrf specification: work/a, work/a/x, work/b
NameA == <<"a">>
NameB == <<"b">>
NameX == <<"x">>
RmrfRel == {<<NameA>>, <<NameA, NameX>>, <<NameB>>}
RmrfPaths == {WorkDir} \cup {Resolve(WorkDir, r) : r \in RmrfRel}

ItemLists == UNION {[1..n -> RmrfRel] : n \in 0..MaxItems}

RmrfArgs ==
    {[str |-> TRUE, val |-> r] : r \in RmrfRel}
        \cup {[str |-> FALSE, val |-> l] : l \in ItemLists}

Existing(f) == {p \in DOMAIN f : f[p] # "absent" /\ Len(p) > 1}

\* the variables of the task runner while no task run is modelled
RunnerIdle ==
    /\ invoked = <<>>
    /\ calls = <<>>
    /\ ci = 0
    /\ trace = <<>>
    /\ exitCode = 0

InitRmrf ==
    /\ fs \in Filesystems(RmrfPaths)
    /\ fs0 = fs
    /\ locked \in SUBSET Existing(fs)
    /\ cwd = WorkDir
    /\ arg \in RmrfArgs
    /\ verbose \in BOOLEAN
    /\ idx = 1
    /\ out = <<>>
    /\ events = <<>>
    /\ err = "none"
    /\ pc = "rmrf"
    /\ RunnerIdle

\* lines 29-37 for the item at idx
RmrfIter ==
    /\ pc = "rmrf"
    /\ idx <= Len(Items(arg))
    /\ LET item == Items(arg)[idx]
           r    == RmrfItem(fs, locked, cwd, item)
       IN  /\ out' = IF verbose THEN Append(out, LogLine(item)) ELSE out
           /\ events' = events
                  \o (IF verbose THEN <<[op |-> "print", item |-> item, at |-> idx]>> ELSE <<>>)
                  \o <<[op |-> "rmtree", item |-> item, at |-> idx],
                       [op |-> "remove", item |-> item, at |-> idx]>>
           /\ fs' = r.fs
           /\ err' = r.err
           /\ pc' = IF r.err = "none" THEN "rmrf" ELSE "raised"
           /\ idx' = IF r.err = "none" THEN idx + 1 ELSE idx
    /\ UNCHANGED <<fs0, locked, cwd, arg, verbose, runnerVars>>

\* the loop is exhausted: rmrf returns None
RmrfReturn ==
    /\ pc = "rmrf"
    /\ idx > Len(Items(arg))
    /\ pc' = "returned"
    /\ UNCHANGED <<fs, fs0, locked, cwd, arg, verbose, idx, out, events, err, runnerVars>>

NextRmrf == RmrfIter \/ RmrfReturn

SpecRmrf == InitRmrf /\ [][NextRmrf]_vars

----------------------------------------------------------------------------
(* The tasks *)

PYTEST_CACHE == <<"", "pytest_cache">>
CACHE == <<"", "cache">>
HTMLCOV == <<"htmlcov">>
COVERAGE == <<"", "coverage">>
MYPY_CACHE == <<"", "mypy_cache">>
DMYPY_JSON == <<"dmypy", "json">>
DMYPY_SOCK == <<"dmypy", "sock">>
BUILDDIR == <<"build">>
DISTDIR == <<"dist">>
EGGS == <<"", "eggs">>
PYCACHE == <<"__pycache__">>

\* what the build commands leave behind
SDIST_FILE == <<"pkg", "tar", "gz">>
WHEEL_FILE == <<"pkg", "whl">>
EGG_INFO == <<"pkg", "egg-info">>

RemovalTasks == {"pytest_clean", "mypy_clean", "build_clean", "dist_clean"}
CleanTasks == RemovalTasks \cup {"eggs_clean", "pycache_clean"}
CommandTasks == {"pytest", "pytest_junit", "mypy", "sdist", "wheel", "pypi", "pypi_test", "flake8"}
Tasks == CleanTasks \cup CommandTasks \cup {"clean_all"}

\* the add_task statements in the order the module executes them (the
\* add_task inside the body of mypy, line 78, re-adds the same task under
\* the same name when that body runs, after the call list was computed)
Registrations ==
    << [line |-> 55,  ns |-> "root",  name |-> "pytest",       task |-> "pytest"],
       [line |-> 62,  ns |-> "root",  name |-> "pytest-junit", task |-> "pytest_junit"],
       [line |-> 71,  ns |-> "clean", name |-> "pytest",       task |-> "pytest_clean"],
       [line |-> 79,  ns |-> "root",  name |-> "mypy",         task |-> "mypy"],
       [line |-> 88,  ns |-> "clean", name |-> "mypy",         task |-> "mypy_clean"],
       [line |-> 113, ns |-> "clean", name |-> "build",        task |-> "build_clean"],
       [line |-> 121, ns |-> "clean", name |-> "dist",         task |-> "dist_clean"],
       [line |-> 136, ns |-> "clean", name |-> "eggs",         task |-> "eggs_clean"],
       [line |-> 149, ns |-> "clean", name |-> "pycache",      task |-> "pycache_clean"],
       [line |-> 159, ns |-> "clean", name |-> "all",          task |-> "clean_all"],
       [line |-> 167, ns |-> "root",  name |-> "sdist",        task |-> "sdist"],
       [line |-> 174, ns |-> "root",  name |-> "wheel",        task |-> "wheel"],
       [line |-> 181, ns |-> "root",  name |-> "pypi",         task |-> "pypi"],
       [line |-> 188, ns |-> "root",  name |-> "pypi-test",    task |-> "pypi_test"],
       [line |-> 196, ns |-> "root",  name |-> "flake8",       task |-> "flake8"] >>

\* list(namespace_clean.tasks.values()) evaluated at a line of the module:
\* the tasks added to the clean namespace by then, in insertion order
NamespaceCleanTasks(line) ==
    LET regs == SelectSeq(Registrations, LAMBDA r : r.ns = "clean" /\ r.line < line)
    IN  [i \in 1..Len(regs) |-> regs[i].task]

\* pypi and pypi_test declared with pre=[sdist] only
PreOfWithoutWheel(t) ==
    CASE t = "clean_all" -> NamespaceCleanTasks(154)
      [] t \in {"sdist", "wheel"} -> <<"clean_all">>
      [] t \in {"pypi", "pypi_test"} -> <<"sdist">>
      [] OTHER -> <<>>

\* the pre= argument of each @invoke.task decorator
PreOf(t) ==
    CASE t = "clean_all" -> NamespaceCleanTasks(154)
      [] t \in {"sdist", "wheel"} -> <<"clean_all">>
      [] t \in {"pypi", "pypi_test"} -> <<"sdist", "wheel">>
      [] OTHER -> <<>>

\* Executor.expand_calls: every call preceded by its expanded prerequisites
RECURSIVE ExpandCalls(_)
ExpandCalls(cs) ==
    IF cs = <<>> THEN <<>>
    ELSE ExpandCalls(PreOf(Head(cs))) \o <<Head(cs)>> \o ExpandCalls(Tail(cs))

\* an executor that runs the expanded list as it is
DedupeOff(cs) == cs

\* Executor.dedupe: keeps the first occurrence of every call
RECURSIVE Dedupe(_)
Dedupe(cs) ==
    IF cs = <<>> THEN <<>>
    ELSE LET front == Dedupe(SubSeq(cs, 1, Len(cs) - 1))
             last  == cs[Len(cs)]
         IN  IF \E i \in 1..Len(front) : front[i] = last THEN front ELSE Append(front, last)

\* the argument each removal task hands to rmrf
RmrfArgOf(t) ==
    CASE t = "pytest_clean" ->
            [str |-> FALSE, val |-> << <<PYTEST_CACHE>>, <<CACHE>>, <<HTMLCOV>>, <<COVERAGE>> >>]
      [] t = "mypy_clean" ->
            [str |-> FALSE, val |-> << <<MYPY_CACHE>>, <<DMYPY_JSON>>, <<DMYPY_SOCK>> >>]
      [] t = "build_clean" -> [str |-> TRUE, val |-> <<BUILDDIR>>]
      [] t = "dist_clean" -> [str |-> TRUE, val |-> <<DISTDIR>>]

\* name.endswith('.' + ext)
EndsWith(name, ext) == Len(name) >= 2 /\ name[Len(name)] = ext

\* os.listdir(path)
ListDir(f, p) == {q[Len(q)] : q \in Children(f, p)}

\* the set eggs_clean collects
EggDirs(f, c) ==
    {<<EGGS>>} \cup
    {<<n>> : n \in {m \in ListDir(f, c) : EndsWith(m, "egg-info") \/ EndsWith(m, "egg")}}

\* the directories os.walk(os.curdir) visits, top down
WalkRoots(f, c) == {q \in DOMAIN f : IsPrefix(c, q) /\ f[q] = "dir"}

\* the set pycache_clean collects: os.path.join(root, '__pycache__')
PycacheDirs(f, c) ==
    {<<Dot>> \o SubSeq(q, Len(c) + 1, Len(q)) \o <<PYCACHE>> :
        q \in {r \in WalkRoots(f, c) : Kind(f, r \o <<PYCACHE>>) = "dir"}}

\* the orders in which a for loop may iterate over a set
Orders(S) ==
    {s \in [1..Cardinality(S) -> S] : \A i, j \in 1..Cardinality(S) : s[i] = s[j] => i = j}

\* with context.cd(TASK_ROOT_STR): the directory pushed on the context
ContextCd == <<TASK_ROOT>>

\* the directory a command of context.run runs in: "cd <dir> && command"
CommandDir(c, cd) == IF cd = <<>> THEN c ELSE cd[Len(cd)]

\* the directory os / shutil resolve relative paths in: context.cd does
\* not change the working directory of the process
FsDir(c, cd) == c

\* exit statuses of an external command
ExitCodes == {0, 1, 2}

\* context.run(command, warn=True) returns the failed result
RunRaisesWarn(e) == FALSE

\* context.run(command) without warn=True raises UnexpectedExit
RunRaises(e) == e # 0

\* entries a successful command creates below its working directory
Outputs(t) ==
    CASE t = "sdist" -> {[path |-> <<DISTDIR>>, kind |-> "dir"],
                         [path |-> <<DISTDIR, SDIST_FILE>>, kind |-> "file"],
                         [path |-> <<EGG_INFO>>, kind |-> "dir"]}
      [] t = "wheel" -> {[path |-> <<BUILDDIR>>, kind |-> "dir"],
                         [path |-> <<DISTDIR>>, kind |-> "dir"],
                         [path |-> <<DISTDIR, WHEEL_FILE>>, kind |-> "file"],
                         [path |-> <<EGG_INFO>>, kind |-> "dir"]}
      [] t \in {"pytest", "pytest_junit"} -> {[path |-> <<PYTEST_CACHE>>, kind |-> "dir"]}
      [] OTHER -> {}

ApplyOutputs(f, d, outs) ==
    [q \in DOMAIN f |->
        IF \E o \in outs : Resolve(d, o.path) = q
        THEN (CHOOSE o \in outs : Resolve(d, o.path) = q).kind
        ELSE f[q]]

----------------------------------------------------------------------------
(* The task runner *)

RmrfIdle ==
    /\ arg = [str |-> FALSE, val |-> <<>>]
    /\ verbose = TRUE
    /\ idx = 0
    /\ events = <<>>

\* entries of each of the two directories in the runner specification
RunnerRel ==
    {<<PYTEST_CACHE>>, <<BUILDDIR>>, <<DISTDIR>>, <<DISTDIR, SDIST_FILE>>,
     <<DISTDIR, WHEEL_FILE>>, <<EGG_INFO>>, <<PYCACHE>>}

RunnerPaths ==
    {TASK_ROOT, WorkDir} \cup {Resolve(d, r) : d \in {TASK_ROOT, WorkDir}, r \in RunnerRel}

\* the directories that hold the leftovers of earlier builds and test
\* runs; the others are pristine
RunnerTree(dirty) ==
    [p \in RunnerPaths |->
        CASE Len(p) = 1 -> "dir"
          [] Len(p) = 2 /\ SubSeq(p, 1, 1) \in dirty -> "dir"
          [] OTHER -> "absent"]

DirtyTree(f, d) ==
    \A r \in RunnerRel : f[Resolve(d, r)] = IF Len(r) = 1 THEN "dir" ELSE "absent"

InitRunner ==
    /\ fs \in {RunnerTree(dirty) : dirty \in SUBSET {TASK_ROOT, WorkDir}}
    /\ fs0 = fs
    /\ cwd \in {TASK_ROOT, WorkDir}
    /\ locked \in {{}} \cup {{p} : p \in Existing(fs) \cap
                                        {Resolve(cwd, <<n>>) : n \in {PYTEST_CACHE, DISTDIR}}}
    /\ invoked \in UNION {[1..n -> Tasks] : n \in 1..MaxNamed}
    /\ calls = <<>>
    /\ ci = 0
    /\ trace = <<>>
    /\ exitCode = 0
    /\ out = <<>>
    /\ err = "none"
    /\ pc = "start"
    /\ RmrfIdle

\* Executor.execute: expand the prerequisites and dedupe
Execute ==
    /\ pc = "start"
    /\ calls' = Dedupe(ExpandCalls(invoked))
    /\ ci' = 1
    /\ pc' = "running"
    /\ UNCHANGED <<fs, fs0, locked, cwd, rmrfVars, out, err, invoked, trace, exitCode>>

\* the outcome of a task body that called rmrf(its, v)
AfterRmrf(t, its, v, banner) ==
    LET r == RmrfAll(fs, locked, FsDir(cwd, ContextCd), its)
    IN  /\ fs' = r.fs
        /\ out' = out \o banner \o RmrfOutput(its, v, r.started)
        /\ trace' = Append(trace, [task |-> t, op |-> "rmrf", dir |-> FsDir(cwd, ContextCd),
                                   exit |-> 0, err |-> r.err, dist |-> {}])
        /\ err' = r.err
        /\ IF r.err = "none"
           THEN /\ ci' = ci + 1
                /\ UNCHANGED <<pc, exitCode>>
           ELSE /\ pc' = "crashed"
                /\ exitCode' = 1
                /\ UNCHANGED ci
        /\ UNCHANGED <<fs0, locked, cwd, rmrfVars, invoked, calls>>

\* pytest_clean, mypy_clean, build_clean, dist_clean
RunRemovalTask ==
    /\ pc = "running"
    /\ ci <= Len(calls)
    /\ calls[ci] \in RemovalTasks
    /\ AfterRmrf(calls[ci], Items(RmrfArgOf(calls[ci])), TRUE, <<>>)

RunEggsClean ==
    /\ pc = "running"
    /\ ci <= Len(calls)
    /\ calls[ci] = "eggs_clean"
    /\ \E its \in Orders(EggDirs(fs, FsDir(cwd, ContextCd))) :
           AfterRmrf("eggs_clean", its, TRUE, <<>>)

RunPycacheClean ==
    /\ pc = "running"
    /\ ci <= Len(calls)
    /\ calls[ci] = "pycache_clean"
    /\ \E its \in Orders(PycacheDirs(fs, FsDir(cwd, ContextCd))) :
           AfterRmrf("pycache_clean", its, FALSE, <<"Removing __pycache__ directories">>)

\* clean_all: pass
RunCleanAll ==
    /\ pc = "running"
    /\ ci <= Len(calls)
    /\ calls[ci] = "clean_all"
    /\ trace' = Append(trace, [task |-> "clean_all", op |-> "pass", dir |-> FsDir(cwd, <<>>),
                               exit |-> 0, err |-> "none", dist |-> {}])
    /\ ci' = ci + 1
    /\ UNCHANGED <<fs, fs0, locked, cwd, rmrfVars, out, err, pc, invoked, calls, exitCode>>

\* pytest, pytest_junit, mypy, sdist, wheel, pypi, pypi_test, flake8:
\* one context.run inside context.cd(TASK_ROOT_STR)
RunCommandTask ==
    /\ pc = "running"
    /\ ci <= Len(calls)
    /\ calls[ci] \in CommandTasks
    /\ \E e \in ExitCodes :
        LET d == CommandDir(cwd, ContextCd)
        IN  /\ trace' = Append(trace, [task |-> calls[ci], op |-> "run", dir |-> d,
                                       exit |-> e, err |-> "none",
                                       dist |-> ListDir(fs, Resolve(d, <<DISTDIR>>))])
            /\ fs' = IF e = 0 THEN ApplyOutputs(fs, d, Outputs(calls[ci])) ELSE fs
            /\ IF RunRaises(e)
               THEN /\ pc' = "failed"
                    /\ err' = "UnexpectedExit"
                    /\ exitCode' = e
                    /\ UNCHANGED ci
               ELSE /\ ci' = ci + 1
                    /\ UNCHANGED <<pc, err, exitCode>>
    /\ UNCHANGED <<fs0, locked, cwd, rmrfVars, out, invoked, calls>>

\* every call has run: invoke exits with status 0
Finish ==
    /\ pc = "running"
    /\ ci > Len(calls)
    /\ pc' = "ok"
    /\ UNCHANGED <<fs, fs0, locked, cwd, rmrfVars, out, err, invoked, calls, ci, trace, exitCode>>

Next ==
    \/ Execute
    \/ RunRemovalTask
    \/ RunEggsClean
    \/ RunPycacheClean
    \/ RunCleanAll
    \/ RunCommandTask
    \/ Finish

Spec == InitRunner /\ [][Next]_vars

----------------------------------------------------------------------------
(* clean.eggs and clean.pycache on arbitrary directory contents *)

\* work/.eggs, work/a.egg-info, work/b.egg (with an entry inside),
\* work/c.txt, work/egg, work/d.egg.bak
EggsRel ==
    {<<EGGS>>, <<(<<"a", "egg-info">>)>>, <<(<<"b", "egg">>)>>,
     <<(<<"b", "egg">>), (<<"inner">>)>>, <<(<<"c", "txt">>)>>,
     <<(<<"egg">>)>>, <<(<<"d", "egg", "bak">>)>>}

EggsPaths == {WorkDir} \cup {Resolve(WorkDir, r) : r \in EggsRel}

\* at most one entry that cannot be deleted
Locks(f) == {{}} \cup {{p} : p \in Existing(f)}

InitTask(paths, t) ==
    /\ fs \in Filesystems(paths)
    /\ fs0 = fs
    /\ cwd = WorkDir
    /\ locked \in Locks(fs)
    /\ invoked = <<t>>
    /\ calls = <<>>
    /\ ci = 0
    /\ trace = <<>>
    /\ exitCode = 0
    /\ out = <<>>
    /\ err = "none"
    /\ pc = "start"
    /\ RmrfIdle

InitEggs == InitTask(EggsPaths, "eggs_clean")

NextEggs == Execute \/ RunEggsClean \/ Finish

SpecEggs == InitEggs /\ [][NextEggs]_vars

\* work/__pycache__ (holding a file and a nested __pycache__), work/a,
\* work/a/__pycache__
PycacheRel ==
    {<<PYCACHE>>, <<PYCACHE, PYCACHE>>, <<PYCACHE, (<<"m", "pyc">>)>>,
     <<NameA>>, <<NameA, PYCACHE>>}

PycachePaths == {WorkDir} \cup {Resolve(WorkDir, r) : r \in PycacheRel}

InitPycache == InitTask(PycachePaths, "pycache_clean")

NextPycache == Execute \/ RunPycacheClean \/ Finish

SpecPycache == InitPycache /\ [][NextPycache]_vars

----------------------------------------------------------------------------
(* Properties of rmrf, under SpecRmrf *)

RmrfOver == pc \in {"returned", "raised"}

\* C1: a call of rmrf on a list of existing files, existing directory
\* trees and nonexistent paths (every entry deletable) ends without raising
\* and with none of the listed paths present.
C1_RmrfRemovesEveryPath ==
    (RmrfOver /\ locked = {}) =>
        /\ pc = "returned"
        /\ \A i \in 1..Len(Items(arg)) : Kind(fs, Resolve(cwd, Items(arg)[i])) = "absent"

\* C2: rmrf never raises to its caller, whatever the state of the listed
\* paths, entries whose deletion fails included.
C2_RmrfNeverRaises == pc # "raised"

\* C4: a call with verbose=true prints exactly one line per input path, in
\* input order, each before the removal attempts on that path; a call with
\* verbose=false prints nothing.
C4_OneLogLinePerPath ==
    RmrfOver =>
        /\ out = IF verbose
                 THEN [i \in 1..Len(Items(arg)) |-> LogLine(Items(arg)[i])]
                 ELSE <<>>
        /\ \A k \in 1..Len(events) :
              verbose /\ events[k].op \in {"rmtree", "remove"} =>
                  \E j \in 1..(k - 1) : events[j].op = "print" /\ events[j].at = events[k].at

----------------------------------------------------------------------------
(* Properties of the task runner, under Spec *)

RunOver == pc \in {"ok", "failed", "crashed"}

Uploads == {"pypi", "pypi_test"}
Builds == {"sdist", "wheel"}

\* task t is named on the command line
Named(t) == \E i \in 1..Len(invoked) : invoked[i] = t

\* positions of the trace at which task t ran
RanAt(t) == {i \in 1..Len(trace) : trace[i].task = t}

\* positions at which task t ran to completion
CompletedAt(t) == {i \in RanAt(t) : trace[i].err = "none" /\ trace[i].exit = 0}

\* C3: every task acts in TASK_ROOT: the paths a clean task removes are
\* resolved under TASK_ROOT, as the external commands are.
C3_EveryTaskActsInTaskRoot ==
    \A i \in 1..Len(trace) : trace[i].op \in {"rmrf", "run"} => trace[i].dir = TASK_ROOT

\* C5: a run of clean.all runs each of the six clean tasks exactly once,
\* each completed before the body of clean_all.
C5_CleanAllRunsEveryCleanTask ==
    (invoked = <<"clean_all">> /\ RunOver) =>
        /\ Cardinality(RanAt("clean_all")) = 1
        /\ \A t \in CleanTasks :
              /\ Cardinality(RanAt(t)) = 1
              /\ \E i \in CompletedAt(t) : \A j \in RanAt("clean_all") : i < j

\* C6: in a run of pypi or pypi-test the upload starts only after the sdist
\* and the wheel build have completed, and a build starts only after
\* clean.all and all its prerequisite clean tasks have completed.
C6_UploadAfterBuildsAfterClean ==
    (\E u \in Uploads : Named(u)) =>
        /\ \A u \in Uploads : \A i \in RanAt(u) : \A b \in Builds :
              \E j \in CompletedAt(b) : j < i
        /\ \A b \in Builds : \A i \in RanAt(b) :
              \E j \in CompletedAt("clean_all") :
                  /\ j < i
                  /\ \A t \in CleanTasks : \E k \in CompletedAt(t) : k < j

C6_Witness ==
    /\ invoked = <<"pypi_test">>
    /\ pc = "ok"
    /\ RanAt("pypi_test") # {}

\* C9: a non-zero exit of an external command is the end of the run: the
\* run fails with that exit status, no later task runs, and no upload is
\* started after a failed build.
C9_CommandFailurePropagates ==
    /\ \A i \in 1..Len(trace) :
          trace[i].op = "run" /\ trace[i].exit # 0 =>
              /\ i = Len(trace)
              /\ pc = "failed"
              /\ exitCode = trace[i].exit
    /\ \A b \in Builds : \A i \in RanAt(b) :
          trace[i].exit # 0 => \A u \in Uploads : RanAt(u) = {}

C9_Witness ==
    /\ invoked = <<"pypi">>
    /\ pc = "failed"
    /\ exitCode = 2
    /\ trace[Len(trace)].task = "wheel"

\* C10: in a run of pypi or pypi-test no clean task runs after a build has
\* written its output, and when the upload starts the dist directory holds
\* the outputs of both builds.
C10_NoCleanAfterBuild ==
    (\E u \in Uploads : Named(u)) =>
        /\ \A b \in Builds : \A i \in CompletedAt(b) : \A j \in 1..Len(trace) :
              j > i => trace[j].task \notin CleanTasks \cup {"clean_all"}
        /\ \A u \in Uploads : \A i \in RanAt(u) :
              {SDIST_FILE, WHEEL_FILE} \subseteq trace[i].dist

C10_Witness ==
    /\ invoked = <<"pypi">>
    /\ cwd = TASK_ROOT
    /\ DirtyTree(fs0, TASK_ROOT)
    /\ \E i \in RanAt("pypi") : trace[i].dist = {SDIST_FILE, WHEEL_FILE}

----------------------------------------------------------------------------
(* Properties of clean.eggs, under SpecEggs, and clean.pycache, under      *)
(* SpecPycache                                                             *)

\* the name ends in '.egg-info' or '.egg', or is '.eggs'
IsEggName(n) == n = EGGS \/ EndsWith(n, "egg-info") \/ EndsWith(n, "egg")

\* C7: clean.eggs removes '.eggs' and every entry of the current directory
\* whose name ends in '.egg-info' or '.egg' (every one that can be deleted
\* at all), and leaves every other entry as it was.
C7_EggsSweep ==
    RunOver =>
        \A p \in DOMAIN fs :
            Len(p) = Len(cwd) + 1 /\ IsPrefix(cwd, p) =>
                IF IsEggName(p[Len(p)])
                THEN Removable(fs0, locked, p) => fs[p] = "absent"
                ELSE \A q \in DOMAIN fs : IsPrefix(p, q) => fs[q] = fs0[q]

\* C8: after clean.pycache no directory named '__pycache__' (that can be
\* deleted at all) remains at any depth, and the task raised no error.
C8_NoPycacheLeft ==
    RunOver =>
        /\ pc = "ok"
        /\ \A p \in DOMAIN fs :
              p[Len(p)] = PYCACHE /\ Removable(fs0, locked, p) => fs[p] # "dir"

----------------------------------------------------------------------------
(* What the code does guarantee where C1, C4, C5, C7 and C8 fail: the      *)
(* claims hold of every call and run in which os.remove raises nothing     *)
(* but FileNotFoundError.                                                  *)

\* no listed path lies below a regular file when the call starts
NoItemBelowFile ==
    \A i \in 1..Len(Items(arg)) :
        LET p == Resolve(cwd, Items(arg)[i])
        IN  \A k \in 1..(Len(p) - 1) : Kind(fs0, SubSeq(p, 1, k)) # "file"

\* rmrf, under SpecRmrf: with every entry deletable and no path below a
\* regular file the call returns and every listed path is gone
RmrfRemovesWhenNothingFails ==
    (RmrfOver /\ locked = {} /\ NoItemBelowFile) =>
        /\ pc = "returned"
        /\ \A i \in 1..Len(Items(arg)) : Kind(fs, Resolve(cwd, Items(arg)[i])) = "absent"

\* rmrf, under SpecRmrf: at every point of the call the output is one line
\* for each item whose iteration has begun, in input order
LogLineForEveryStartedItem ==
    LET n == IF pc = "raised" THEN idx ELSE idx - 1
    IN  out = IF verbose THEN [i \in 1..n |-> LogLine(Items(arg)[i])] ELSE <<>>

\* runner, under Spec: the body of clean_all runs only after each of the
\* six clean tasks has completed, and no task runs twice
CleanAllBodyAfterEveryCleanTask ==
    /\ \A t \in Tasks : Cardinality(RanAt(t)) <= 1
    /\ \A j \in RanAt("clean_all") : \A t \in CleanTasks : \E i \in CompletedAt(t) : i < j

\* clean.eggs, under SpecEggs: a run that ends without error has swept
\* every egg entry and touched nothing else; no run fails unless an entry
\* cannot be deleted
EggsSweepWhenNothingFails ==
    /\ locked = {} => pc # "crashed"
    /\ pc = "ok" =>
          \A p \in DOMAIN fs :
              Len(p) = Len(cwd) + 1 /\ IsPrefix(cwd, p) =>
                  IF IsEggName(p[Len(p)])
                  THEN fs[p] = "absent"
                  ELSE \A q \in DOMAIN fs : IsPrefix(p, q) => fs[q] = fs0[q]

\* clean.pycache, under SpecPycache: a run that ends without error leaves
\* no __pycache__ directory, in whatever order the set was removed; no run
\* fails unless an entry cannot be deleted
NoPycacheLeftWhenNothingFails ==
    /\ locked = {} => pc # "crashed"
    /\ pc = "ok" => \A p \in DOMAIN fs : p[Len(p)] = PYCACHE => fs[p] # "dir"

====
